---- MODULE Spec2Model ----
(***************************************************************************)
(* Model of server/main.py (WearableAI backend): the POST /process_audio   *)
(* handler, which sends an upload to the Whisper transcription API and the *)
(* transcription to the chat-completions API, and the GET / handler.       *)
(*                                                                         *)
(* Python values are tagged records: a str is PyStr(v), None is None, a    *)
(* local that is not bound yet is Unbound.  Texts (transcriptions, advice, *)
(* error messages) are sequences of one-character strings so that strip()  *)
(* and f-string interpolation are computed character by character; file    *)
(* names and content types, which the code only compares for equality and  *)
(* truthiness, are TLA+ strings.                                           *)
(*                                                                         *)
(* Each request slot runs process_audio as a sequence of steps (receive,   *)
(* read the upload, call Whisper, call the chat model or skip it, return). *)
(* Steps of different slots interleave freely, which covers the event loop *)
(* (that interleaves only at the await of line 57) and multi-worker        *)
(* deployments alike.                                                      *)
(***************************************************************************)
EXTENDS Integers, Sequences, FiniteSets, TLC

VARIABLES
    client,               \* module-level OpenAI client (line 23)
    pc,                   \* per request: position in process_audio
    audio_file,           \* per request: the UploadFile parameter
    audio_data,           \* per request: local audio_data
    filename_for_api,     \* per request: local filename_for_api
    file_tuple,           \* per request: local file_tuple
    transcription_text,   \* per request: local transcription_text
    completion_response,  \* per request: local completion_response
    advice_text,          \* per request: local advice_text
    outcome,              \* per request: what the handler returned or raised
    trace,                \* per request: reads, outbound calls and outcome, in order
    root_response         \* body of the last GET / response

vars == <<client, pc, audio_file, audio_data, filename_for_api, file_tuple,
          transcription_text, completion_response, advice_text, outcome, trace,
          root_response>>

locals == <<pc, audio_file, audio_data, filename_for_api, file_tuple,
            transcription_text, completion_response, advice_text, outcome, trace>>

-----------------------------------------------------------------------------
(* Bounds of the model *)

MaxTextLen == 2       \* longest transcription text returned by Whisper
MaxContentLen == 2    \* longest content of the first chat choice
MaxChoices == 2       \* most choices in one chat completion
NConc == 2            \* request slots running concurrently in SpecConc

-----------------------------------------------------------------------------
(* Python values *)

None == [t |-> "None"]
Unbound == [t |-> "unbound"]
PyStr(v) == [t |-> "str", v |-> v]
PyException(kind, msg) == [t |-> "exc", kind |-> kind, msg |-> msg]

SeqsUpTo(S, n) == UNION {[1..k -> S] : k \in 0..n}

-----------------------------------------------------------------------------
(* String literals of the source, as character sequences *)

\* line 122, before {transcription_text}
UserMessagePrefix ==
    <<"C","o","n","v","e","r","s","a","c","i","ó","n"," ","t","r","a","n","s","c","r",
      "i","t","a",":","\n","\n">>

\* line 122, after {transcription_text}
UserMessageSuffix ==
    <<"\n","\n","¿","Q","u","é"," ","c","o","n","s","e","j","o"," ","s","u","t","i","l",
      " ","p","o","d","r","í","a","s"," ","o","f","r","e","c","e","r"," ","e","n"," ",
      "e","s","t","e"," ","m","o","m","e","n","t","o","?">>

\* line 110
WhisperErrorPrefix ==
    <<"W","h","i","s","p","e","r"," ","A","P","I"," ","e","r","r","o","r",":"," ">>

\* line 113
TranscribeErrorPrefix ==
    <<"F","a","i","l","e","d"," ","t","o"," ","t","r","a","n","s","c","r","i","b","e",
      " ","a","u","d","i","o",":"," ">>

\* line 139
AdviceLLMError ==
    <<"E","r","r","o","r"," ","g","e","n","e","r","a","t","i","n","g"," ","a","d","v",
      "i","c","e"," ","f","r","o","m"," ","L","L","M",".">>

\* line 142
AdviceGenericError ==
    <<"E","r","r","o","r"," ","g","e","n","e","r","a","t","i","n","g"," ","a","d","v",
      "i","c","e",".">>

\* line 145
AdviceSkipped ==
    <<"T","r","a","n","s","c","r","i","p","t","i","o","n"," ","f","a","i","l","e","d",
      ","," ","c","a","n","n","o","t"," ","g","e","n","e","r","a","t","e"," ","a","d",
      "v","i","c","e",".">>

\* str(TypeError) of None[:100], line 106
NoneNotSubscriptable ==
    <<"'","N","o","n","e","T","y","p","e","'"," ","o","b","j","e","c","t"," ","i","s",
      " ","n","o","t"," ","s","u","b","s","c","r","i","p","t","a","b","l","e">>

\* messages carried by the exceptions the collaborators raise
MsgRateLimit ==
    <<"r","a","t","e"," ","l","i","m","i","t">>

MsgTimeout ==
    <<"t","i","m","e","d"," ","o","u","t">>

MsgReadFailed ==
    <<"r","e","a","d"," ","o","f"," ","c","l","o","s","e","d"," ","f","i","l","e">>

-----------------------------------------------------------------------------
(* Pure steps of process_audio *)

\* line 121
SystemPrompt ==
    "Actúas como un asistente social inteligente. Has escuchado la conversación transcrita del usuario en un entorno de trabajo. Si detectas una oportunidad para ayudarlo a expresarse mejor, calmar tensiones, ser más claro o socialmente hábil, genera una frase corta y útil. Sé empático, proactivo y no invasivo."

\* str.strip() with no argument removes leading and trailing whitespace
Whitespace == {" ", "\t", "\n", "\r", "\f"}

RECURSIVE LStrip(_)
LStrip(s) ==
    IF Len(s) > 0 /\ Head(s) \in Whitespace THEN LStrip(Tail(s)) ELSE s

RECURSIVE RStrip(_)
RStrip(s) ==
    IF Len(s) > 0 /\ s[Len(s)] \in Whitespace
    THEN RStrip(SubSeq(s, 1, Len(s) - 1))
    ELSE s

\* a plausible slip: lstrip() instead of strip()
StripLeftOnly(s) == LStrip(s)

Strip(s) == RStrip(LStrip(s))

\* truthiness of audio_file.filename (line 72): None and "" are falsy
NameTruthy(x) == x.t = "str" /\ x.v # ""

\* a plausible slip: the test `audio_file.filename is None` instead of `not audio_file.filename`
ResolveFilenameNoneOnly(upload) ==
    IF upload.filename = None
    THEN LET content_type == upload.content_type IN
         IF content_type = PyStr("audio/mpeg") THEN PyStr("audio.mp3")
         ELSE IF content_type = PyStr("audio/wav") THEN PyStr("audio.wav")
         ELSE IF content_type = PyStr("audio/ogg") THEN PyStr("audio.ogg")
         ELSE IF content_type = PyStr("audio/mp4") \/ content_type = PyStr("video/mp4")
              THEN PyStr("audio.mp4")
         ELSE IF content_type = PyStr("audio/m4a") THEN PyStr("audio.m4a")
         ELSE PyStr("audio.webm")
    ELSE upload.filename

\* lines 72-89: the file name sent to Whisper
ResolveFilename(upload) ==
    IF ~NameTruthy(upload.filename)
    THEN LET content_type == upload.content_type IN
         IF content_type = PyStr("audio/mpeg") THEN PyStr("audio.mp3")
         ELSE IF content_type = PyStr("audio/wav") THEN PyStr("audio.wav")
         ELSE IF content_type = PyStr("audio/ogg") THEN PyStr("audio.ogg")
         ELSE IF content_type = PyStr("audio/mp4") \/ content_type = PyStr("video/mp4")
              THEN PyStr("audio.mp4")
         ELSE IF content_type = PyStr("audio/m4a") THEN PyStr("audio.m4a")
         ELSE PyStr("audio.webm")
    ELSE upload.filename

\* line 92
FileTuple(name, data, upload) == <<name, data, upload.content_type>>

\* lines 99-102: arguments of client.audio.transcriptions.create
WhisperArgs(ft) == [model |-> "whisper-1", file |-> ft]

\* lines 105-106: the text taken from the Whisper result, and the exception
\* raised on the way if any (None[:100] in the log line raises TypeError)
WhisperStep(res) ==
    IF res.t = "exc" THEN [text |-> PyStr(<<>>), exc |-> res]
    ELSE IF res.text.t = "str" THEN [text |-> res.text, exc |-> None]
    ELSE [text |-> res.text, exc |-> PyException("Exception", NoneNotSubscriptable)]

HTTPException(status_code, detail) ==
    [kind |-> "HTTPException", status_code |-> status_code, detail |-> detail]

\* a plausible slip: a fixed detail that drops the exception's message
TranscriptionHandlerNoDetail(exc) ==
    IF exc.kind = "OpenAIError"
    THEN HTTPException(500, WhisperErrorPrefix)
    ELSE HTTPException(500, TranscribeErrorPrefix)

\* lines 108-113: both except clauses of the transcription step
TranscriptionHandler(exc) ==
    IF exc.kind = "OpenAIError"
    THEN HTTPException(500, WhisperErrorPrefix \o exc.msg)
    ELSE HTTPException(500, TranscribeErrorPrefix \o exc.msg)

\* a plausible slip: `if transcription_text.strip():`
TextTruthyStripped(x) == x.t = "str" /\ Strip(x.v) # <<>>

\* a plausible slip: the emptiness test left out
TextTruthyAlways(x) == TRUE

\* line 117: truthiness of transcription_text
TextTruthy(x) == x.t = "str" /\ x.v # <<>>

\* line 122
UserMessage(text) == UserMessagePrefix \o text.v \o UserMessageSuffix

\* lines 124-132: arguments of client.chat.completions.create
ChatArgs(text) ==
    [model |-> "gpt-4o",
     messages |-> <<[role |-> "system", content |-> SystemPrompt],
                    [role |-> "user", content |-> UserMessage(text)]>>,
     temperature |-> "0.7",
     max_tokens |-> 100]

\* a plausible slip: the two placeholders exchanged
ChatStepSwapped(res) ==
    IF res.t = "exc"
    THEN IF res.kind = "OpenAIError"
         THEN PyStr(AdviceGenericError)
         ELSE PyStr(AdviceLLMError)
    ELSE IF Len(res.choices) = 0
         THEN PyStr(AdviceLLMError)
    ELSE IF res.choices[1].message.content.t # "str"
         THEN PyStr(AdviceLLMError)
    ELSE PyStr(Strip(res.choices[1].message.content.v))

\* lines 133-142: advice_text after the chat call returned or raised res;
\* choices[0] of no choices raises IndexError and None.strip() raises
\* AttributeError, both caught by `except Exception`
ChatStep(res) ==
    IF res.t = "exc"
    THEN IF res.kind = "OpenAIError"
         THEN PyStr(AdviceLLMError)
         ELSE PyStr(AdviceGenericError)
    ELSE IF Len(res.choices) = 0
         THEN PyStr(AdviceGenericError)
    ELSE IF res.choices[1].message.content.t # "str"
         THEN PyStr(AdviceGenericError)
    ELSE PyStr(Strip(res.choices[1].message.content.v))

\* line 149
ResponseRecord(text, advice) ==
    [kind |-> "response", status_code |-> 200,
     body |-> [transcription |-> text, advice |-> advice]]

\* line 154
RootMessage == [message |-> "Wearable AI Backend is running"]

-----------------------------------------------------------------------------
(* Inputs: uploads, and what the collaborators may return or raise *)

Filenames == {None, PyStr(""), PyStr("clip.wav")}

ContentTypes ==
    {None, PyStr("audio/mpeg"), PyStr("audio/wav"), PyStr("audio/ogg"),
     PyStr("audio/mp4"), PyStr("video/mp4"), PyStr("audio/m4a"),
     PyStr("audio/webm"), PyStr("audio/x-wav")}

Payloads == {"", "RIFF"}

Uploads == [filename : Filenames, content_type : ContentTypes, data : Payloads]

UploadsFew ==
    {[filename |-> None, content_type |-> PyStr("audio/wav"), data |-> "RIFF"],
     [filename |-> PyStr("clip.wav"), content_type |-> None, data |-> "RIFF"]}

Ok(fields) == [t |-> "ok"] @@ fields

\* await audio_file.read() returns the upload's bytes or raises
ReadResults(upload) ==
    {Ok([data |-> upload.data]), PyException("Exception", MsgReadFailed)}

TextChars == {" ", "a"}

WhisperErrors ==
    {PyException("OpenAIError", MsgRateLimit), PyException("OpenAIError", MsgTimeout),
     PyException("Exception", MsgTimeout)}

WhisperResults ==
    {Ok([text |-> PyStr(s)]) : s \in SeqsUpTo(TextChars, MaxTextLen)}
    \cup {Ok([text |-> None])} \cup WhisperErrors

WhisperResultsFew ==
    {Ok([text |-> PyStr(<<>>)]), Ok([text |-> PyStr(<<"a">>)]),
     Ok([text |-> PyStr(<<" ">>)]), PyException("OpenAIError", MsgRateLimit)}

Choice(content) == [message |-> [content |-> content]]

ChatErrors ==
    {PyException("OpenAIError", MsgRateLimit), PyException("Exception", MsgTimeout)}

ChatResultsFew ==
    {Ok([choices |-> <<>>]),
     Ok([choices |-> <<Choice(None)>>]),
     Ok([choices |-> <<Choice(PyStr(<<"\n", " ", "o", "k", "\t">>))>>]),
     Ok([choices |-> <<Choice(PyStr(<<>>)), Choice(PyStr(<<"z">>))>>])}
    \cup ChatErrors

ChatResultsTwo ==
    {Ok([choices |-> <<Choice(PyStr(<<"\n", " ", "o", "k", "\t">>))>>]),
     PyException("OpenAIError", MsgRateLimit)}

ContentChars == {" ", "\n", "a"}

FirstContents == {None} \cup {PyStr(s) : s \in SeqsUpTo(ContentChars, MaxContentLen)}

LaterContents == {None, PyStr(<<"z">>)}

ChatResultsRich ==
    {Ok([choices |-> <<>>])}
    \cup {Ok([choices |-> <<Choice(c)>> \o [i \in DOMAIN tl |-> Choice(tl[i])]]) :
            c \in FirstContents, tl \in SeqsUpTo(LaterContents, MaxChoices - 1)}
    \cup ChatErrors

-----------------------------------------------------------------------------
(* State *)

Requests == DOMAIN pc

Event(svc, args, result) == [svc |-> svc, args |-> args, result |-> result]

\* lines 16-29: the client is built once, before any request is served
InitSlots(slots) ==
    /\ client = [api_key |-> "OPENAI_API_KEY"]
    /\ pc = [r \in slots |-> "idle"]
    /\ audio_file = [r \in slots |-> Unbound]
    /\ audio_data = [r \in slots |-> Unbound]
    /\ filename_for_api = [r \in slots |-> Unbound]
    /\ file_tuple = [r \in slots |-> Unbound]
    /\ transcription_text = [r \in slots |-> Unbound]
    /\ completion_response = [r \in slots |-> Unbound]
    /\ advice_text = [r \in slots |-> Unbound]
    /\ outcome = [r \in slots |-> Unbound]
    /\ trace = [r \in slots |-> <<>>]
    /\ root_response = Unbound

Init == InitSlots({1})

InitConc == InitSlots(1..NConc)

-----------------------------------------------------------------------------
(* process_audio, step by step *)

\* lines 46-54: a request arrives in a free slot; its frame starts afresh
Receive(r, uploads) ==
    /\ pc[r] \in {"idle", "done"}
    /\ \E upload \in uploads :
         audio_file' = [audio_file EXCEPT ![r] = upload]
    /\ pc' = [pc EXCEPT ![r] = "read"]
    /\ audio_data' = [audio_data EXCEPT ![r] = Unbound]
    /\ filename_for_api' = [filename_for_api EXCEPT ![r] = Unbound]
    /\ file_tuple' = [file_tuple EXCEPT ![r] = Unbound]
    /\ transcription_text' = [transcription_text EXCEPT ![r] = PyStr(<<>>)]
    /\ completion_response' = [completion_response EXCEPT ![r] = Unbound]
    /\ advice_text' = [advice_text EXCEPT ![r] = Unbound]
    /\ outcome' = [outcome EXCEPT ![r] = Unbound]
    /\ trace' = [trace EXCEPT ![r] = <<>>]
    /\ UNCHANGED <<client, root_response>>

\* lines 57-94 (and 111-113 when the read raises): read the upload, resolve
\* the file name, build the tuple for Whisper
ReadUpload(r) ==
    /\ pc[r] = "read"
    /\ \E res \in ReadResults(audio_file[r]) :
         /\ trace' = [trace EXCEPT ![r] =
                IF res.t = "exc"
                THEN @ \o <<Event("read", None, res),
                            Event("outcome", None, TranscriptionHandler(res))>>
                ELSE Append(@, Event("read", None, res))]
         /\ IF res.t = "exc"
            THEN /\ outcome' = [outcome EXCEPT ![r] = TranscriptionHandler(res)]
                 /\ pc' = [pc EXCEPT ![r] = "done"]
                 /\ UNCHANGED <<audio_data, filename_for_api, file_tuple>>
            ELSE /\ audio_data' = [audio_data EXCEPT ![r] = res.data]
                 /\ filename_for_api' =
                        [filename_for_api EXCEPT ![r] = ResolveFilename(audio_file[r])]
                 /\ file_tuple' = [file_tuple EXCEPT ![r] =
                        FileTuple(ResolveFilename(audio_file[r]), res.data, audio_file[r])]
                 /\ pc' = [pc EXCEPT ![r] = "transcribe"]
                 /\ UNCHANGED outcome
    /\ UNCHANGED <<client, audio_file, transcription_text, completion_response,
                   advice_text, root_response>>

\* a plausible slip: one retry of the Whisper call after a provider error
TranscribeRetry(r, results) ==
    /\ pc[r] = "transcribe"
    /\ \E res \in results :
         LET step == WhisperStep(res)
             call == Event("whisper", WhisperArgs(file_tuple[r]), res)
             retry == /\ res.t = "exc"
                      /\ res.kind = "OpenAIError"
                      /\ \A i \in DOMAIN trace[r] : trace[r][i].svc # "whisper"
         IN
         /\ transcription_text' = [transcription_text EXCEPT ![r] = step.text]
         /\ IF retry
            THEN /\ trace' = [trace EXCEPT ![r] = Append(@, call)]
                 /\ UNCHANGED <<outcome, pc>>
            ELSE IF step.exc # None
            THEN /\ trace' = [trace EXCEPT ![r] =
                        @ \o <<call, Event("outcome", None, TranscriptionHandler(step.exc))>>]
                 /\ outcome' = [outcome EXCEPT ![r] = TranscriptionHandler(step.exc)]
                 /\ pc' = [pc EXCEPT ![r] = "done"]
            ELSE /\ trace' = [trace EXCEPT ![r] = Append(@, call)]
                 /\ pc' = [pc EXCEPT ![r] = "advise"]
                 /\ UNCHANGED outcome
    /\ UNCHANGED <<client, audio_file, audio_data, filename_for_api, file_tuple,
                   completion_response, advice_text, root_response>>

\* a plausible slip: transcription_text kept in a module-level global, which
\* every request in flight then sees
TranscribeGlobal(r, results) ==
    /\ pc[r] = "transcribe"
    /\ \E res \in results :
         LET step == WhisperStep(res)
             call == Event("whisper", WhisperArgs(file_tuple[r]), res)
         IN
         /\ transcription_text' =
                [q \in Requests |-> IF q = r \/ pc[q] \in {"read", "transcribe", "advise", "respond"}
                                    THEN step.text
                                    ELSE transcription_text[q]]
         /\ IF step.exc # None
            THEN /\ trace' = [trace EXCEPT ![r] =
                        @ \o <<call, Event("outcome", None, TranscriptionHandler(step.exc))>>]
                 /\ outcome' = [outcome EXCEPT ![r] = TranscriptionHandler(step.exc)]
                 /\ pc' = [pc EXCEPT ![r] = "done"]
            ELSE /\ trace' = [trace EXCEPT ![r] = Append(@, call)]
                 /\ pc' = [pc EXCEPT ![r] = "advise"]
                 /\ UNCHANGED outcome
    /\ UNCHANGED <<client, audio_file, audio_data, filename_for_api, file_tuple,
                   completion_response, advice_text, root_response>>

\* lines 99-113: the Whisper call; a provider error, any other exception, or
\* a None text (TypeError at line 106) ends the request with a 500
Transcribe(r, results) ==
    /\ pc[r] = "transcribe"
    /\ \E res \in results :
         LET step == WhisperStep(res)
             call == Event("whisper", WhisperArgs(file_tuple[r]), res)
         IN
         /\ transcription_text' = [transcription_text EXCEPT ![r] = step.text]
         /\ IF step.exc # None
            THEN /\ trace' = [trace EXCEPT ![r] =
                        @ \o <<call, Event("outcome", None, TranscriptionHandler(step.exc))>>]
                 /\ outcome' = [outcome EXCEPT ![r] = TranscriptionHandler(step.exc)]
                 /\ pc' = [pc EXCEPT ![r] = "done"]
            ELSE /\ trace' = [trace EXCEPT ![r] = Append(@, call)]
                 /\ pc' = [pc EXCEPT ![r] = "advise"]
                 /\ UNCHANGED outcome
    /\ UNCHANGED <<client, audio_file, audio_data, filename_for_api, file_tuple,
                   completion_response, advice_text, root_response>>

\* a plausible slip: a provider error of the chat call re-raised as a 500,
\* as the transcription step does
AdviseRaising(r, results) ==
    /\ pc[r] = "advise"
    /\ TextTruthy(transcription_text[r])
    /\ \E res \in results :
         LET call == Event("chat", ChatArgs(transcription_text[r]), res) IN
         /\ completion_response' =
                [completion_response EXCEPT ![r] = IF res.t = "ok" THEN res ELSE @]
         /\ IF res.t = "exc" /\ res.kind = "OpenAIError"
            THEN /\ trace' = [trace EXCEPT ![r] =
                        @ \o <<call, Event("outcome", None, TranscriptionHandler(res))>>]
                 /\ outcome' = [outcome EXCEPT ![r] = TranscriptionHandler(res)]
                 /\ pc' = [pc EXCEPT ![r] = "done"]
                 /\ advice_text' = [advice_text EXCEPT ![r] = PyStr(<<>>)]
            ELSE /\ trace' = [trace EXCEPT ![r] = Append(@, call)]
                 /\ advice_text' = [advice_text EXCEPT ![r] = ChatStep(res)]
                 /\ pc' = [pc EXCEPT ![r] = "respond"]
                 /\ UNCHANGED outcome
    /\ UNCHANGED <<client, audio_file, audio_data, filename_for_api, file_tuple,
                   transcription_text, root_response>>

\* lines 116-142: the chat call, made when transcription_text is truthy;
\* whatever it returns or raises, the request goes on to return
Advise(r, results) ==
    /\ pc[r] = "advise"
    /\ TextTruthy(transcription_text[r])
    /\ \E res \in results :
         /\ trace' = [trace EXCEPT ![r] =
                Append(@, Event("chat", ChatArgs(transcription_text[r]), res))]
         /\ completion_response' =
                [completion_response EXCEPT ![r] = IF res.t = "ok" THEN res ELSE @]
         /\ advice_text' = [advice_text EXCEPT ![r] = ChatStep(res)]
    /\ pc' = [pc EXCEPT ![r] = "respond"]
    /\ UNCHANGED <<client, audio_file, audio_data, filename_for_api, file_tuple,
                   transcription_text, outcome, root_response>>

\* lines 116-117, 143-145: no chat call for a falsy transcription_text
SkipAdvice(r) ==
    /\ pc[r] = "advise"
    /\ ~TextTruthy(transcription_text[r])
    /\ advice_text' = [advice_text EXCEPT ![r] = PyStr(AdviceSkipped)]
    /\ pc' = [pc EXCEPT ![r] = "respond"]
    /\ UNCHANGED <<client, audio_file, audio_data, filename_for_api, file_tuple,
                   transcription_text, completion_response, outcome, trace,
                   root_response>>

\* line 149
Respond(r) ==
    /\ pc[r] = "respond"
    /\ outcome' = [outcome EXCEPT ![r] =
            ResponseRecord(transcription_text[r], advice_text[r])]
    /\ trace' = [trace EXCEPT ![r] =
            Append(@, Event("outcome", None,
                            ResponseRecord(transcription_text[r], advice_text[r])))]
    /\ pc' = [pc EXCEPT ![r] = "done"]
    /\ UNCHANGED <<client, audio_file, audio_data, filename_for_api, file_tuple,
                   transcription_text, completion_response, advice_text,
                   root_response>>

\* a plausible slip: a health check that reports failed requests
RootDegraded ==
    /\ root_response' =
          IF \E r \in Requests : outcome[r] # Unbound /\ outcome[r].kind = "HTTPException"
          THEN [message |-> "Wearable AI Backend is degraded"]
          ELSE RootMessage
    /\ UNCHANGED <<client, locals>>

\* lines 152-154: GET /
Root ==
    /\ root_response' = RootMessage
    /\ UNCHANGED <<client, locals>>

-----------------------------------------------------------------------------
(* Specifications *)

\* one request at a time, every upload and every transcription result
Next ==
    \/ \E r \in Requests : Receive(r, Uploads)
    \/ \E r \in Requests : ReadUpload(r)
    \/ \E r \in Requests : Transcribe(r, WhisperResults)
    \/ \E r \in Requests : Advise(r, ChatResultsFew)
    \/ \E r \in Requests : SkipAdvice(r)
    \/ \E r \in Requests : Respond(r)
    \/ Root

Spec == Init /\ [][Next]_vars

\* one request at a time, every chat completion
NextAdvice ==
    \/ \E r \in Requests : Receive(r, UploadsFew)
    \/ \E r \in Requests : ReadUpload(r)
    \/ \E r \in Requests : Transcribe(r, WhisperResultsFew)
    \/ \E r \in Requests : Advise(r, ChatResultsRich)
    \/ \E r \in Requests : SkipAdvice(r)
    \/ \E r \in Requests : Respond(r)
    \/ Root

SpecAdvice == Init /\ [][NextAdvice]_vars

\* NConc requests in flight at once
NextConc ==
    \/ \E r \in Requests : Receive(r, UploadsFew)
    \/ \E r \in Requests : ReadUpload(r)
    \/ \E r \in Requests : Transcribe(r, WhisperResultsFew)
    \/ \E r \in Requests : Advise(r, ChatResultsTwo)
    \/ \E r \in Requests : SkipAdvice(r)
    \/ \E r \in Requests : Respond(r)
    \/ Root

SpecConc == InitConc /\ [][NextConc]_vars

-----------------------------------------------------------------------------
(* Reading a request's trace *)

EventsOf(r, svc) == SelectSeq(trace[r], LAMBDA e : e.svc = svc)

WhisperCalls(r) == EventsOf(r, "whisper")

ChatCalls(r) == EventsOf(r, "chat")

Outcomes(r) == EventsOf(r, "outcome")

\* the texts Whisper returned to request r
ReturnedTexts(r) ==
    {WhisperCalls(r)[i].result.text :
        i \in {j \in DOMAIN WhisperCalls(r) : WhisperCalls(r)[j].result.t = "ok"}}

NonEmptyText(T) == T.t = "str" /\ Len(T.v) > 0

\* the messages of the failures of request r's transcription step: an
\* exception raised by the read or by Whisper, or the TypeError a None text causes
StepFailures(r) ==
    {trace[r][i].result.msg :
        i \in {j \in DOMAIN trace[r] : /\ trace[r][j].svc \in {"read", "whisper"}
                                       /\ trace[r][j].result.t = "exc"}}
    \cup {NoneNotSubscriptable :
        i \in {j \in DOMAIN trace[r] : /\ trace[r][j].svc = "whisper"
                                       /\ trace[r][j].result.t = "ok"
                                       /\ trace[r][j].result.text.t = "None"}}

\* what went wrong in a chat call that returned or raised res, if anything
ChatFailure(res) ==
    IF res.t = "exc" THEN res.kind
    ELSE IF Len(res.choices) = 0 THEN "IndexError"
    ELSE IF res.choices[1].message.content.t # "str" THEN "AttributeError"
    ELSE "none"

Contains(hay, needle) ==
    \E i \in 0..(Len(hay) - Len(needle)) : SubSeq(hay, i + 1, i + Len(needle)) = needle

IsResponse(r) ==
    /\ pc[r] = "done"
    /\ outcome[r].kind = "response"
    /\ outcome[r].status_code = 200

-----------------------------------------------------------------------------
(* Claims *)

\* C1: when Whisper returns the empty text, the chat model is never called in
\* that request, and the request ends with a 200 response whose transcription
\* is "" and whose advice is "Transcription failed, cannot generate advice."
C1_EmptyTextSkipsAdvice ==
    \A r \in Requests :
        PyStr(<<>>) \in ReturnedTexts(r) =>
            /\ ChatCalls(r) = <<>>
            /\ pc[r] \in {"advise", "respond", "done"}
            /\ pc[r] = "done" =>
                 /\ IsResponse(r)
                 /\ outcome[r].body.transcription = PyStr(<<>>)
                 /\ outcome[r].body.advice = PyStr(AdviceSkipped)

C1_Witness ==
    \E r \in Requests :
        /\ PyStr(<<>>) \in ReturnedTexts(r)
        /\ IsResponse(r)
        /\ outcome[r].body.advice = PyStr(AdviceSkipped)

\* C2: when the transcription step fails (the read raises, Whisper raises a
\* provider error or anything else, or the text cannot be used), the request
\* ends at once with a 500 whose detail contains the failure's message; no
\* response record is produced, the chat model is never called and Whisper is
\* not called again.
C2_TranscriptionFailureIs500 ==
    \A r \in Requests :
        StepFailures(r) # {} =>
            /\ pc[r] = "done"
            /\ outcome[r].kind = "HTTPException"
            /\ outcome[r].status_code = 500
            /\ \A m \in StepFailures(r) : Contains(outcome[r].detail, m)
            /\ \A i \in DOMAIN Outcomes(r) : Outcomes(r)[i].result.kind # "response"
            /\ ChatCalls(r) = <<>>
            /\ Len(WhisperCalls(r)) <= 1

C2_Witness ==
    \E r \in Requests :
        /\ Len(WhisperCalls(r)) = 1
        /\ WhisperCalls(r)[1].result = PyException("OpenAIError", MsgRateLimit)
        /\ pc[r] = "done"
        /\ outcome[r] = HTTPException(500, WhisperErrorPrefix \o MsgRateLimit)

C4_NonEmptyTextAdvisedOnce ==
    \A r \in Requests :
        \A T \in ReturnedTexts(r) :
            NonEmptyText(T) =>
                /\ Len(ChatCalls(r)) <= 1
                /\ pc[r] \in {"respond", "done"} => Len(ChatCalls(r)) = 1
                /\ \A i \in DOMAIN ChatCalls(r) :
                     LET messages == ChatCalls(r)[i].args.messages IN
                     /\ Len(messages) = 2
                     /\ messages[1] = [role |-> "system", content |-> SystemPrompt]
                     /\ messages[2].role = "user"
                     /\ Contains(messages[2].content, T.v)
                /\ pc[r] = "done" =>
                     /\ IsResponse(r)
                     /\ outcome[r].body.transcription = T

C4_Witness ==
    \E r \in Requests :
        /\ PyStr(<<" ">>) \in ReturnedTexts(r)
        /\ Len(ChatCalls(r)) = 1
        /\ IsResponse(r)
        /\ outcome[r].body.transcription = PyStr(<<" ">>)

\* the lookup table of the specification
ExtensionTable ==
    {<<"audio/mpeg", "audio.mp3">>, <<"audio/wav", "audio.wav">>,
     <<"audio/ogg", "audio.ogg">>, <<"audio/mp4", "audio.mp4">>,
     <<"video/mp4", "audio.mp4">>, <<"audio/m4a", "audio.m4a">>}

ExpectedName(upload) ==
    IF upload.filename \in {None, PyStr("")}
    THEN IF \E p \in ExtensionTable : upload.content_type = PyStr(p[1])
         THEN PyStr((CHOOSE p \in ExtensionTable : upload.content_type = PyStr(p[1]))[2])
         ELSE PyStr("audio.webm")
    ELSE upload.filename

\* C5: the file name sent to Whisper depends on the upload's file name and
\* content type only: with no file name (None or "") it is the table's name
\* for the content type and audio.webm for any other or absent content type;
\* with a file name it is that file name, whatever the content type.
C5_FilenameFromTable ==
    \A r \in Requests :
        /\ filename_for_api[r] # Unbound =>
               filename_for_api[r] = ExpectedName(audio_file[r])
        /\ \A i \in DOMAIN WhisperCalls(r) :
               WhisperCalls(r)[i].args.file[1] = ExpectedName(audio_file[r])

C5_Witness ==
    \E r \in Requests :
        /\ Len(WhisperCalls(r)) = 1
        /\ audio_file[r].filename = PyStr("")
        /\ audio_file[r].content_type = PyStr("video/mp4")
        /\ WhisperCalls(r)[1].args.file[1] = PyStr("audio.mp4")

\* C6: a request ends with an error exactly when its transcription step
\* failed; when the step succeeded the request ends with a 200 response with
\* a transcription and an advice field, whatever the chat call did.
C6_ErrorIffTranscriptionFailed ==
    \A r \in Requests :
        pc[r] = "done" =>
            /\ outcome[r].kind = "HTTPException" <=> StepFailures(r) # {}
            /\ StepFailures(r) = {} =>
                 /\ IsResponse(r)
                 /\ DOMAIN outcome[r].body = {"transcription", "advice"}
                 /\ outcome[r].body.transcription.t = "str"
                 /\ outcome[r].body.advice.t = "str"

C6_Witness ==
    \E r \in Requests :
        /\ Len(ChatCalls(r)) = 1
        /\ ChatFailure(ChatCalls(r)[1].result) = "IndexError"
        /\ StepFailures(r) = {}
        /\ IsResponse(r)

\* C7: GET / answers {"message": "Wearable AI Backend is running"} in every
\* reachable state, whatever requests are in flight, done or failed; it can
\* always be served, calls no service and changes nothing of any request.
C7_RootFixedMessage ==
    /\ [](root_response \in {Unbound, [message |-> "Wearable AI Backend is running"]})
    /\ [](ENABLED Root)
    /\ [][root_response' # root_response =>
             /\ root_response' = [message |-> "Wearable AI Backend is running"]
             /\ UNCHANGED <<client, locals>>]_vars

C7_Witness ==
    /\ root_response = [message |-> "Wearable AI Backend is running"]
    /\ \E r, q \in Requests :
         /\ pc[r] = "done"
         /\ outcome[r].kind = "HTTPException"
         /\ pc[q] = "advise"

\* C8: within one request Whisper is called at most once, the chat model at
\* most once and only after Whisper returned successfully in the same request,
\* and exactly one outcome (a response or a 500) is produced, after every
\* outbound call of the request; no call is repeated.
C8_StrictLinearOrder ==
    \A r \in Requests :
        LET tr == trace[r]
            At(svc) == {i \in DOMAIN tr : tr[i].svc = svc}
        IN
        /\ Cardinality(At("read")) <= 1
        /\ Cardinality(At("whisper")) <= 1
        /\ Cardinality(At("chat")) <= 1
        /\ Cardinality(At("outcome")) <= 1
        /\ \A w \in At("whisper") : \E d \in At("read") : d < w /\ tr[d].result.t = "ok"
        /\ \A c \in At("chat") : \E w \in At("whisper") : w < c /\ tr[w].result.t = "ok"
        /\ \A o \in At("outcome") :
             /\ o = Len(tr)
             /\ tr[o].result = outcome[r]
             /\ tr[o].result.kind \in {"response", "HTTPException"}
        /\ pc[r] = "done" <=> At("outcome") # {}
        /\ pc[r] # "done" => outcome[r] = Unbound

C8_Witness ==
    \E r \in Requests :
        /\ pc[r] = "done"
        /\ Len(trace[r]) = 4
        /\ trace[r][2].svc = "whisper"
        /\ trace[r][3].svc = "chat"
        /\ trace[r][4].svc = "outcome"

LocalsOf(q) ==
    <<pc[q], audio_file[q], audio_data[q], filename_for_api[q], file_tuple[q],
      transcription_text[q], completion_response[q], advice_text[q], outcome[q],
      trace[q]>>

\* what request r sends to Whisper, from its own upload and its own read
OwnFileTuple(r) ==
    <<ExpectedName(audio_file[r]), EventsOf(r, "read")[1].result.data,
      audio_file[r].content_type>>

\* the outcome of request r, from its own upload and the results of its own calls
OwnOutcome(r) ==
    IF StepFailures(r) # {}
    THEN LET last == trace[r][Len(trace[r]) - 1].result IN
         TranscriptionHandler(IF last.t = "exc"
                              THEN last
                              ELSE PyException("Exception", NoneNotSubscriptable))
    ELSE ResponseRecord(WhisperCalls(r)[1].result.text,
                        IF ChatCalls(r) = <<>>
                        THEN PyStr(AdviceSkipped)
                        ELSE ChatStep(ChatCalls(r)[1].result))

\* C9: with several requests in flight, under every interleaving, what a
\* request sends and returns is determined by its own upload and the results
\* of its own calls; every step changes the locals of one request only, and
\* the client, the only state they share, is never changed.
C9_RequestsIndependent ==
    /\ [](\A r \in Requests :
            /\ pc[r] \in {"transcribe", "advise", "respond"} =>
                   file_tuple[r] = OwnFileTuple(r)
            /\ \A i \in DOMAIN WhisperCalls(r) :
                   WhisperCalls(r)[i].args = WhisperArgs(OwnFileTuple(r))
            /\ pc[r] \in {"advise", "respond"} =>
                   transcription_text[r] = WhisperCalls(r)[1].result.text
            /\ \A i \in DOMAIN ChatCalls(r) :
                   ChatCalls(r)[i].args = ChatArgs(WhisperCalls(r)[1].result.text)
            /\ pc[r] = "done" => outcome[r] = OwnOutcome(r))
    /\ [][/\ \E r \in Requests :
               \A q \in Requests \ {r} : LocalsOf(q)' = LocalsOf(q)
          /\ client' = client]_vars

C9_Witness ==
    \E r, q \in Requests :
        /\ r # q
        /\ pc[r] = "done" /\ pc[q] = "done"
        /\ outcome[r].kind = "response" /\ outcome[q].kind = "response"
        /\ outcome[r].body.transcription = PyStr(<<"a">>)
        /\ outcome[q].body.transcription = PyStr(<<" ">>)
        /\ audio_file[r] # audio_file[q]

\* a is s without its leading and trailing whitespace
IsStripOf(a, s) ==
    \E i, j \in 0..Len(s) :
        /\ i + j <= Len(s)
        /\ a = SubSeq(s, i + 1, Len(s) - j)
        /\ \A k \in 1..i : s[k] \in Whitespace
        /\ \A k \in (Len(s) - j + 1)..Len(s) : s[k] \in Whitespace
        /\ Len(a) > 0 => a[1] \notin Whitespace /\ a[Len(a)] \notin Whitespace

====
